---- MODULE Spec2Model ----
(***************************************************************************)
(* State-machine model of static/script.js, the browser front end of the   *)
(* job-application tracker.  One action per event handler; every handler   *)
(* runs to its next await, and a response runs the awaiting chain of       *)
(* async functions (apiRequest -> loadJobs/saveJob/... -> handler) to its  *)
(* next fetch or to its end, as the microtask queue does.                   *)
(***************************************************************************)
EXTENDS Integers, Sequences, FiniteSets, TLC

(* ---------------------------- bounds ----------------------------------- *)
\* requests that may be in flight at once
MaxInFlight == 2
\* largest job id the server hands out
MaxId == 1
\* longest list the server answers with
MaxJobs == 1

(* ---------------------------- values ----------------------------------- *)
\* JavaScript null (editingJobId, the default jobId of openModal)
Null == 0 - 1

Ids == 1..MaxId

\* strings are sequences of characters, so that trim() is computed
Empty == << >>
\* what the user leaves in #company and #position after typing: a company of
\* blanks only, or both fields filled
TypedForms == { [company |-> <<" ">>, position |-> <<"a">>],
                [company |-> <<"a">>, position |-> <<"a">>] }

\* the columns a header click passes to sortTable (of the four sortable headers)
Columns == {"company", "status"}
StatusVals == {"", "applied"}

\* how a fetch ends: a 2xx answer, a 401, or a failure (another non-2xx
\* status or a rejected fetch, which take the same path through the callers)
Outcomes == {"ok", "unauth", "error"}

\* a record of the list, with its required fields
Job(i) == [id |-> i, company |-> <<"a">>, position |-> <<"a">>]

RECURSIVE SeqsOver(_, _)
SeqsOver(S, n) ==
    IF n = 0 THEN { << >> }
    ELSE LET shorter == SeqsOver(S, n - 1)
         IN  shorter \cup { Append(s, x) : s \in { t \in shorter : Len(t) = n - 1 },
                                            x \in S }

NoDup(s) == \A i, j \in 1..Len(s) : i # j => s[i].id # s[j].id

\* the bodies a successful GET /api/jobs can carry
Payloads == { s \in SeqsOver({ Job(i) : i \in Ids }, MaxJobs) : NoDup(s) }

\* the value of the global `jobs`: an array, or undefined
Arr(s) == [tag |-> "array", items |-> s]
Undefined == [tag |-> "undefined", items |-> << >>]

NoQuery == [sort_by |-> "", sort_order |-> "", status |-> << >>]
NoReq == [via |-> "none", method |-> "none", url |-> "none", id |-> Null,
          q |-> NoQuery, caller |-> "none", late |-> FALSE]

\* the body of a stats answer: total and byStatus may be absent (Null), and a
\* byStatus mapping may lack the interview key
NoMapping == [present |-> FALSE, interview |-> Null]
Mapping(n) == [present |-> TRUE, interview |-> n]
NoStats == [total |-> Null, byStatus |-> NoMapping]
StatsBodies == { NoStats,
                 [total |-> 2, byStatus |-> Mapping(Null)],
                 [total |-> 2, byStatus |-> Mapping(1)] }

\* what a step writes into #totalApps and #interviewCount
NoShow == [written |-> FALSE, total |-> "", interview |-> ""]

VARIABLES
    started,        \* the DOMContentLoaded handler has run
    redirected,     \* window.location.href = '/' has been assigned
    jobs,           \* global jobs
    rendered,       \* rows of #jobTableBody (each carries Edit/Delete buttons)
    sortColumn,     \* global sortColumn
    sortOrder,      \* global sortOrder
    statusFilter,   \* #statusFilter.value
    editingJobId,   \* global editingJobId
    modalOpen,      \* #jobModal.style.display = 'block'
    form,           \* #company.value, #position.value
    saveDisabled,   \* #saveButton.disabled (and the busy label)
    loading,        \* #loading.style.display = 'flex'
    authPending,    \* checkAuth's fetch is in flight
    net,            \* the other requests in flight, in the order they were issued
    ev,             \* the event the last step handled
    alert,          \* the alert() the last step showed, "none" if none
    sent,           \* the requests the last step issued
    download,       \* the last step clicked the download link
    shown,          \* what the last step wrote into the stats fields
    reopened        \* the modal was opened while the running submit was in flight

vars == <<started, redirected, jobs, rendered, sortColumn, sortOrder, statusFilter,
          editingJobId, modalOpen, form, saveDisabled, loading, authPending, net,
          ev, alert, sent, download, shown, reopened>>

\* an event the page handles: a call of a handler, with its job id or its
\* column or filter value and the way it went, or the answer to a request,
\* with the request, its outcome and the list it carried
Call(op, id, str, how) ==
    [op |-> op, id |-> id, str |-> str, req |-> NoReq, outcome |-> how, body |-> << >>,
     stats |-> NoStats]
Response(r, o, p) ==
    [op |-> "response", id |-> Null, str |-> "", req |-> r, outcome |-> o, body |-> p,
     stats |-> NoStats]
\* the answer to a stats request, with the body it carried
StatsResponse(r, o, b) ==
    [op |-> "response", id |-> Null, str |-> "", req |-> r, outcome |-> o, body |-> << >>,
     stats |-> b]

(* ------------------------- pure functions ------------------------------ *)
\* JavaScript truthiness of a job id (null and 0 are falsy)
Truthy(x) == x # Null /\ x # 0

RECURSIVE TrimLeft(_)
TrimLeft(s) == IF s # << >> /\ Head(s) = " " THEN TrimLeft(Tail(s)) ELSE s

RECURSIVE TrimRight(_)
TrimRight(s) ==
    IF s # << >> /\ s[Len(s)] = " " THEN TrimRight(SubSeq(s, 1, Len(s) - 1)) ELSE s

\* String.prototype.trim
Trim(s) == TrimRight(TrimLeft(s))

\* value || ''
OrEmpty(v) == IF v = Empty THEN Empty ELSE v

\* the validation without trim()
FormValid_untrimmed(f) == f.company # Empty /\ f.position # Empty
\* the validation of handleFormSubmit: both trimmed fields non-empty
FormValid(f) == Trim(f.company) # Empty /\ Trim(f.position) # Empty

\* saveJob that never updates
SaveMethod_alwaysPost(eid) == "POST"
\* saveJob's choice of method and url
SaveMethod(eid) == IF Truthy(eid) THEN "PUT" ELSE "POST"
SaveUrl(eid) == IF Truthy(eid) THEN "/api/jobs/{id}" ELSE "/api/jobs"

\* a toggle that always lands on asc
ToggleOrder_stuck(o) == "asc"
\* sortTable's new (column, order)
ToggleOrder(o) == IF o = "asc" THEN "desc" ELSE "asc"
SortState(col, ord, c) ==
    IF col = c THEN [column |-> col, order |-> ToggleOrder(ord)]
    ELSE [column |-> c, order |-> "asc"]

\* apiRequest without the return of its 401 branch
ApiResult_throwOn401(o) == IF o = "ok" THEN "value" ELSE "throws"
\* what apiRequest hands its caller: the parsed body, undefined after the
\* 401 redirect, or an exception
ApiResult(o) ==
    IF o = "ok" THEN "value" ELSE IF o = "unauth" THEN "undefined" ELSE "throws"

\* jobs.find(j => j.id === jobId) finds a record
Found(items, jobId) == \E k \in 1..Len(items) : items[k].id = jobId

FindJob(items, jobId) ==
    items[CHOOSE k \in 1..Len(items) :
            items[k].id = jobId /\ \A m \in 1..(k - 1) : items[m].id # jobId]

\* populateForm
PopulateForm(job) == [company |-> OrEmpty(job.company), position |-> OrEmpty(job.position)]

\* a count shown as it is, absent or not
OrZero_asIs(v) == v
\* count || 0
OrZero(v) == IF v = Null \/ v = 0 THEN 0 ELSE v

\* stats.byStatus?.interview
OptInterview(b) == IF b.byStatus.present THEN b.byStatus.interview ELSE Null

\* a number assigned to textContent
TextContent(n) == ToString(n)

\* updateStatsDisplay
updateStatsDisplay(b) ==
    [written |-> TRUE,
     total |-> TextContent(OrZero(b.total)),
     interview |-> TextContent(OrZero(OptInterview(b)))]

(* --------------------------- requests ---------------------------------- *)
\* a query that carries the status parameter whatever the filter holds
Query_alwaysStatus(col, ord, filt) ==
    [sort_by |-> col, sort_order |-> ord, status |-> <<filt>>]
\* the URLSearchParams of loadJobs: sort_by and sort_order, and status
\* appended when the filter value is a non-empty string
Query(col, ord, filt) ==
    [sort_by |-> col, sort_order |-> ord,
     status |-> IF filt # "" THEN <<filt>> ELSE << >>]

\* loadJobs up to its await: the list request built from the ambient state
ListReq(col, ord, filt, caller) ==
    [via |-> "apiRequest", method |-> "GET", url |-> "/api/jobs", id |-> Null,
     q |-> Query(col, ord, filt), caller |-> caller, late |-> FALSE]

StatsReq ==
    [via |-> "apiRequest", method |-> "GET", url |-> "/api/stats", id |-> Null,
     q |-> NoQuery, caller |-> "loadStats", late |-> FALSE]

SaveReq(eid) ==
    [via |-> "apiRequest", method |-> SaveMethod(eid), url |-> SaveUrl(eid),
     id |-> IF Truthy(eid) THEN eid ELSE Null,
     q |-> NoQuery, caller |-> "handleFormSubmit", late |-> FALSE]

DeleteReq(jobId) ==
    [via |-> "apiRequest", method |-> "DELETE", url |-> "/api/jobs/{id}", id |-> jobId,
     q |-> NoQuery, caller |-> "deleteJob", late |-> FALSE]

AuthReq ==
    [via |-> "fetch", method |-> "GET", url |-> "/api/jobs", id |-> Null,
     q |-> NoQuery, caller |-> "checkAuth", late |-> FALSE]

ExportReq ==
    [via |-> "fetch", method |-> "GET", url |-> "/api/export/csv", id |-> Null,
     q |-> NoQuery, caller |-> "exportToCSV", late |-> FALSE]

IsList(r) == r.via = "apiRequest" /\ r.method = "GET" /\ r.url = "/api/jobs"
IsStats(r) == r.via = "apiRequest" /\ r.url = "/api/stats"
IsSave(r) == r.via = "apiRequest" /\ r.method \in {"POST", "PUT"}
IsDelete(r) == r.via = "apiRequest" /\ r.method = "DELETE"

Remove(s, i) == [k \in 1..(Len(s) - 1) |-> IF k < i THEN s[k] ELSE s[k + 1]]

Room == Len(net) < MaxInFlight

(* ---------------------------- initial state ---------------------------- *)
Init ==
    /\ started = FALSE
    /\ redirected = FALSE
    /\ jobs = Arr(<< >>)
    /\ rendered = << >>
    /\ sortColumn = "created_at"
    /\ sortOrder = "desc"
    /\ statusFilter = ""
    /\ editingJobId = Null
    /\ modalOpen = FALSE
    /\ form = [company |-> Empty, position |-> Empty]
    /\ saveDisabled = FALSE
    /\ loading = FALSE
    /\ authPending = FALSE
    /\ net = << >>
    /\ ev = Call("load", Null, "", "none")
    /\ alert = "none"
    /\ sent = << >>
    /\ download = FALSE
    /\ shown = NoShow
    /\ reopened = FALSE

\* DOMContentLoaded: setupEventListeners, checkAuth, loadJobs, loadStats
DOMContentLoaded ==
    /\ ~started
    /\ started' = TRUE
    /\ authPending' = TRUE
    /\ net' = net \o <<ListReq(sortColumn, sortOrder, statusFilter, "loadJobs"), StatsReq>>
    /\ sent' = <<AuthReq, ListReq(sortColumn, sortOrder, statusFilter, "loadJobs"), StatsReq>>
    /\ loading' = TRUE
    /\ ev' = Call("DOMContentLoaded", Null, "", "none")
    /\ alert' = "none"
    /\ download' = FALSE
    /\ shown' = NoShow
    /\ UNCHANGED <<redirected, jobs, rendered, sortColumn, sortOrder, statusFilter,
                   editingJobId, modalOpen, form, saveDisabled, reopened>>

\* what a step shows of itself: the event handled, the alert shown, the
\* requests issued and whether a download was started
Obs(e, a, s, d) == ev' = e /\ alert' = a /\ sent' = s /\ download' = d /\ shown' = NoShow

(* ----------------------------- the modal -------------------------------- *)
\* closeModal: hide the modal, clear the edit target
closeModal(e) ==
    /\ modalOpen' = FALSE
    /\ editingJobId' = Null
    /\ reopened' = FALSE
    /\ Obs(e, "none", << >>, FALSE)
    /\ UNCHANGED <<authPending, started, redirected, jobs, rendered, sortColumn, sortOrder,
                   statusFilter, form, saveDisabled, loading, net>>

\* keydown with event.key === 'Escape'
KeyEscape ==
    /\ started
    /\ closeModal(Call("closeModal", Null, "", "none"))

\* window click whose target is the modal backdrop
ClickOutside ==
    /\ started
    /\ modalOpen
    /\ closeModal(Call("closeModal", Null, "", "none"))

\* the form's cancel control
CancelClick ==
    /\ started
    /\ modalOpen
    /\ closeModal(Call("closeModal", Null, "", "none"))

\* openModal(jobId): the edit target is assigned first; an edit looks the
\* record up in jobs (a TypeError when jobs is undefined ends the call before
\* the modal is displayed), a create resets the form
openModal(jobId) ==
    /\ editingJobId' = jobId
    /\ IF Truthy(jobId)
       THEN /\ IF jobs.tag = "undefined"
               THEN UNCHANGED <<form, modalOpen>>
               ELSE /\ form' = IF Found(jobs.items, jobId)
                               THEN PopulateForm(FindJob(jobs.items, jobId))
                               ELSE form
                    /\ modalOpen' = TRUE
       ELSE /\ form' = [company |-> Empty, position |-> Empty]
            /\ modalOpen' = TRUE
    /\ reopened' = (reopened \/ (modalOpen' /\ ~modalOpen /\ saveDisabled))
    /\ Obs(Call("openModal", jobId, "", "none"), "none", << >>, FALSE)
    /\ UNCHANGED <<authPending, started, redirected, jobs, rendered, sortColumn, sortOrder,
                   statusFilter, saveDisabled, loading, net>>

\* keydown Ctrl/Cmd+N
KeyCtrlN ==
    /\ started
    /\ openModal(Null)

\* the Edit button of a rendered row: onclick="openModal(${job.id})"
EditClick(jobId) ==
    /\ started
    /\ openModal(jobId)

\* typing into #company and #position
Type(f) ==
    /\ started
    /\ modalOpen
    /\ f # form
    /\ form' = f
    /\ Obs(Call("input", Null, "", "none"), "none", << >>, FALSE)
    /\ UNCHANGED <<reopened, authPending, started, redirected, jobs, rendered, sortColumn, sortOrder, statusFilter,
                   editingJobId, modalOpen, saveDisabled, loading, net>>

(* ------------------------------ submit ---------------------------------- *)
\* handleFormSubmit up to its first await.  The form is submitted through
\* #saveButton, which a running submit keeps disabled.  A rejected form
\* alerts and returns through finally; an accepted one calls saveJob, whose
\* apiRequest shows the indicator and issues the request.
Submit ==
    /\ started
    /\ modalOpen
    /\ ~saveDisabled
    /\ IF ~FormValid(form)
       THEN /\ Obs(Call("handleFormSubmit", Null, "", "rejected"),
                   "Company and Position are required fields", << >>, FALSE)
            /\ UNCHANGED <<saveDisabled, loading, net>>
       ELSE /\ Room
            /\ saveDisabled' = TRUE
            /\ loading' = TRUE
            /\ net' = Append(net, SaveReq(editingJobId))
            /\ Obs(Call("handleFormSubmit", Null, "", "accepted"),
                   "none", <<SaveReq(editingJobId)>>, FALSE)
    /\ UNCHANGED <<reopened, authPending, started, redirected, jobs, rendered, sortColumn, sortOrder, statusFilter,
                   editingJobId, modalOpen, form>>

(* ------------------------------ delete ---------------------------------- *)
\* deleteJob without the early return after confirm()
DeleteClick_noConfirm(jobId, confirmed) ==
    /\ started
    /\ Room
    /\ loading' = TRUE
    /\ net' = Append(net, DeleteReq(jobId))
    /\ Obs(Call("deleteJob", jobId, "", IF confirmed THEN "accepted" ELSE "declined"),
           "none", <<DeleteReq(jobId)>>, FALSE)
    /\ UNCHANGED <<reopened, authPending, started, redirected, jobs, rendered, sortColumn, sortOrder,
                   statusFilter, editingJobId, modalOpen, form, saveDisabled>>

\* deleteJob(jobId) up to its first await; confirmed is the answer to confirm()
DeleteClick(jobId, confirmed) ==
    /\ started
    /\ IF ~confirmed
       THEN /\ Obs(Call("deleteJob", jobId, "", "declined"), "none", << >>, FALSE)
            /\ UNCHANGED <<loading, net>>
       ELSE /\ Room
            /\ loading' = TRUE
            /\ net' = Append(net, DeleteReq(jobId))
            /\ Obs(Call("deleteJob", jobId, "", "accepted"),
                   "none", <<DeleteReq(jobId)>>, FALSE)
    /\ UNCHANGED <<reopened, authPending, started, redirected, jobs, rendered, sortColumn, sortOrder, statusFilter,
                   editingJobId, modalOpen, form, saveDisabled>>

(* --------------------------- sort and filter ---------------------------- *)
\* sortTable(column): new sort state, then loadJobs()
SortClick(c) ==
    /\ started
    /\ Room
    /\ sortColumn' = SortState(sortColumn, sortOrder, c).column
    /\ sortOrder' = SortState(sortColumn, sortOrder, c).order
    /\ loading' = TRUE
    /\ net' = Append(net, ListReq(sortColumn', sortOrder', statusFilter, "loadJobs"))
    /\ Obs(Call("sortTable", Null, c, "none"), "none",
           <<ListReq(sortColumn', sortOrder', statusFilter, "loadJobs")>>, FALSE)
    /\ UNCHANGED <<reopened, authPending, started, redirected, jobs, rendered, statusFilter,
                   editingJobId, modalOpen, form, saveDisabled>>

\* a change of #statusFilter, which reloads the list
FilterChange(s) ==
    /\ started
    /\ Room
    /\ s # statusFilter
    /\ statusFilter' = s
    /\ loading' = TRUE
    /\ net' = Append(net, ListReq(sortColumn, sortOrder, s, "loadJobs"))
    /\ Obs(Call("filter", Null, s, "none"), "none",
           <<ListReq(sortColumn, sortOrder, s, "loadJobs")>>, FALSE)
    /\ UNCHANGED <<reopened, authPending, started, redirected, jobs, rendered, sortColumn, sortOrder,
                   editingJobId, modalOpen, form, saveDisabled>>

\* clearFilters
ClearClick ==
    /\ started
    /\ Room
    /\ statusFilter' = ""
    /\ loading' = TRUE
    /\ net' = Append(net, ListReq(sortColumn, sortOrder, "", "loadJobs"))
    /\ Obs(Call("clearFilters", Null, "", "none"), "none",
           <<ListReq(sortColumn, sortOrder, "", "loadJobs")>>, FALSE)
    /\ UNCHANGED <<reopened, authPending, started, redirected, jobs, rendered, sortColumn, sortOrder,
                   editingJobId, modalOpen, form, saveDisabled>>

(* ------------------------- stats timer, export -------------------------- *)
\* setInterval(loadStats, 60000)
TimerTick ==
    /\ started
    /\ Room
    /\ loading' = TRUE
    /\ net' = Append(net, StatsReq)
    /\ Obs(Call("loadStats", Null, "", "none"), "none", <<StatsReq>>, FALSE)
    /\ UNCHANGED <<reopened, authPending, started, redirected, jobs, rendered, sortColumn, sortOrder, statusFilter,
                   editingJobId, modalOpen, form, saveDisabled>>

\* keydown Ctrl/Cmd+E: exportToCSV up to its fetch
KeyCtrlE ==
    /\ started
    /\ Room
    /\ net' = Append(net, ExportReq)
    /\ Obs(Call("exportToCSV", Null, "", "none"), "none", <<ExportReq>>, FALSE)
    /\ UNCHANGED <<reopened, authPending, started, redirected, jobs, rendered, sortColumn, sortOrder, statusFilter,
                   editingJobId, modalOpen, form, saveDisabled, loading>>

(* ----------------------------- responses ------------------------------- *)
\* checkAuth after its fetch: any non-ok answer or a rejected fetch redirects
RespondAuth(o) ==
    /\ authPending
    /\ authPending' = FALSE
    /\ redirected' = (redirected \/ o # "ok")
    /\ Obs(Response(AuthReq, o, << >>), "none", << >>, FALSE)
    /\ UNCHANGED <<reopened, started, jobs, rendered, sortColumn, sortOrder, statusFilter,
                   editingJobId, modalOpen, form, saveDisabled, loading, net>>

\* exportToCSV without the check of response.ok
RespondExport_noOkCheck(i, o) ==
    /\ net[i].caller = "exportToCSV"
    /\ net' = Remove(net, i)
    /\ Obs(Response(net[i], o, << >>), "none", << >>, TRUE)
    /\ UNCHANGED <<reopened, authPending, started, redirected, jobs, rendered, sortColumn, sortOrder, statusFilter,
                   editingJobId, modalOpen, form, saveDisabled, loading>>

\* exportToCSV after its fetch: a download on an ok answer, an alert otherwise
RespondExport(i, o) ==
    /\ net[i].caller = "exportToCSV"
    /\ net' = Remove(net, i)
    /\ Obs(Response(net[i], o, << >>),
           IF o = "ok" THEN "none" ELSE "Failed to export data. Please try again.",
           << >>, o = "ok")
    /\ UNCHANGED <<reopened, authPending, started, redirected, jobs, rendered, sortColumn, sortOrder, statusFilter,
                   editingJobId, modalOpen, form, saveDisabled, loading>>

\* apiRequest's 401 branch assigns window.location.href
ApiRedirects(o) == o = "unauth"

\* loadStats after its apiRequest: the indicator is hidden in finally; the
\* display is updated, or the failure (an exception of apiRequest, or the
\* TypeError of reading undefined.total) is logged
RespondStats(i, o, b) ==
    /\ IsStats(net[i])
    /\ o # "ok" => b = NoStats
    /\ redirected' = (redirected \/ ApiRedirects(o))
    /\ loading' = FALSE
    /\ net' = Remove(net, i)
    /\ ev' = StatsResponse(net[i], o, b)
    /\ alert' = "none"
    /\ sent' = << >>
    /\ download' = FALSE
    /\ shown' = IF ApiResult(o) = "value" THEN updateStatsDisplay(b) ELSE NoShow
    /\ UNCHANGED <<reopened, authPending, started, jobs, rendered, sortColumn, sortOrder, statusFilter,
                   editingJobId, modalOpen, form, saveDisabled>>

\* the answer merged into the list instead of replacing it
LoadJobsStore_merge(res, p, old) ==
    IF res = "value"
    THEN Arr(p \o SelectSeq(old.items, LAMBDA j : \A k \in 1..Len(p) : p[k].id # j.id))
    ELSE IF res = "undefined" THEN Undefined ELSE old
\* jobs = await apiRequest(...): the assignment happens unless apiRequest throws
LoadJobsStore(res, p, old) ==
    IF res = "value" THEN Arr(p) ELSE IF res = "undefined" THEN Undefined ELSE old

\* renderTable() is reached unless apiRequest throws; on undefined it throws
\* at jobs.length before it touches the table
LoadJobsRender(res, p, old) == IF res = "value" THEN p ELSE old

\* loadJobs without its call of loadStats()
LoadJobsRefreshesStats_never(res) == FALSE
\* loadStats() called whatever became of the list request
LoadJobsRefreshesStats_always(res) == TRUE
\* loadStats() is reached when the assignment and renderTable() went through
LoadJobsRefreshesStats(res) == res = "value"

\* the list requests issued before request i and still in flight are marked
\* late when the answer to request i is stored (history of the overlap)
MarkLate(s, i) == [k \in 1..Len(s) |-> IF k < i /\ IsList(s[k]) THEN [s[k] EXCEPT !.late = TRUE] ELSE s[k]]

\* loadJobs after its apiRequest, and then the caller that awaits loadJobs:
\* handleFormSubmit goes on to closeModal() and its finally, deleteJob ends
RespondList(i, o, p) ==
    /\ IsList(net[i])
    /\ o # "ok" => p = << >>
    /\ LET r == net[i]
           res == ApiResult(o)
           rest == Remove(IF res = "value" THEN MarkLate(net, i) ELSE net, i)
       IN  /\ redirected' = (redirected \/ ApiRedirects(o))
           /\ jobs' = LoadJobsStore(res, p, jobs)
           /\ rendered' = LoadJobsRender(res, p, rendered)
           /\ IF LoadJobsRefreshesStats(res)
              THEN /\ loading' = TRUE
                   /\ net' = Append(rest, StatsReq)
                   /\ sent' = <<StatsReq>>
              ELSE /\ loading' = FALSE
                   /\ net' = rest
                   /\ sent' = << >>
           /\ IF r.caller = "handleFormSubmit"
              THEN /\ modalOpen' = FALSE
                   /\ editingJobId' = Null
                   /\ reopened' = FALSE
                   /\ saveDisabled' = FALSE
              ELSE UNCHANGED <<modalOpen, editingJobId, reopened, saveDisabled>>
           /\ ev' = Response(r, o, p)
           /\ alert' = "none"
           /\ download' = FALSE
           /\ shown' = NoShow
    /\ UNCHANGED <<authPending, started, sortColumn, sortOrder, statusFilter, form>>

\* handleFormSubmit without its finally block
RespondSave_noFinally(i, o) ==
    /\ IsSave(net[i])
    /\ redirected' = (redirected \/ ApiRedirects(o))
    /\ IF ApiResult(o) = "throws"
       THEN /\ loading' = FALSE
            /\ net' = Remove(net, i)
            /\ reopened' = FALSE
            /\ Obs(Response(net[i], o, << >>),
                   "Failed to save application. Please try again.", << >>, FALSE)
       ELSE /\ loading' = TRUE
            /\ net' = Append(Remove(net, i),
                             ListReq(sortColumn, sortOrder, statusFilter, "handleFormSubmit"))
            /\ UNCHANGED reopened
            /\ Obs(Response(net[i], o, << >>), "none",
                   <<ListReq(sortColumn, sortOrder, statusFilter, "handleFormSubmit")>>, FALSE)
    /\ UNCHANGED <<authPending, started, jobs, rendered, sortColumn, sortOrder, statusFilter,
                   editingJobId, modalOpen, form, saveDisabled>>

\* handleFormSubmit whose catch closes the modal
RespondSave_closesOnFailure(i, o) ==
    /\ IsSave(net[i])
    /\ redirected' = (redirected \/ ApiRedirects(o))
    /\ IF ApiResult(o) = "throws"
       THEN /\ loading' = FALSE
            /\ net' = Remove(net, i)
            /\ saveDisabled' = FALSE
            /\ reopened' = FALSE
            /\ modalOpen' = FALSE
            /\ editingJobId' = Null
            /\ Obs(Response(net[i], o, << >>),
                   "Failed to save application. Please try again.", << >>, FALSE)
       ELSE /\ loading' = TRUE
            /\ net' = Append(Remove(net, i),
                             ListReq(sortColumn, sortOrder, statusFilter, "handleFormSubmit"))
            /\ UNCHANGED <<saveDisabled, reopened, modalOpen, editingJobId>>
            /\ Obs(Response(net[i], o, << >>), "none",
                   <<ListReq(sortColumn, sortOrder, statusFilter, "handleFormSubmit")>>, FALSE)
    /\ UNCHANGED <<authPending, started, jobs, rendered, sortColumn, sortOrder, statusFilter,
                   form>>

\* handleFormSubmit after saveJob: an exception alerts and restores the
\* button; otherwise loadJobs() issues the list request the handler awaits
RespondSave(i, o) ==
    /\ IsSave(net[i])
    /\ redirected' = (redirected \/ ApiRedirects(o))
    /\ IF ApiResult(o) = "throws"
       THEN /\ loading' = FALSE
            /\ net' = Remove(net, i)
            /\ saveDisabled' = FALSE
            /\ reopened' = FALSE
            /\ Obs(Response(net[i], o, << >>),
                   "Failed to save application. Please try again.", << >>, FALSE)
       ELSE /\ loading' = TRUE
            /\ net' = Append(Remove(net, i),
                             ListReq(sortColumn, sortOrder, statusFilter, "handleFormSubmit"))
            /\ UNCHANGED <<saveDisabled, reopened>>
            /\ Obs(Response(net[i], o, << >>), "none",
                   <<ListReq(sortColumn, sortOrder, statusFilter, "handleFormSubmit")>>, FALSE)
    /\ UNCHANGED <<authPending, started, jobs, rendered, sortColumn, sortOrder, statusFilter,
                   editingJobId, modalOpen, form>>

\* deleteJob that takes the record out of jobs itself once the DELETE succeeded
RespondDelete_optimistic(i, o) ==
    /\ IsDelete(net[i])
    /\ redirected' = (redirected \/ ApiRedirects(o))
    /\ IF ApiResult(o) = "throws"
       THEN /\ loading' = FALSE
            /\ net' = Remove(net, i)
            /\ jobs' = jobs
            /\ Obs(Response(net[i], o, << >>),
                   "Failed to delete application. Please try again.", << >>, FALSE)
       ELSE /\ loading' = TRUE
            /\ net' = Append(Remove(net, i),
                             ListReq(sortColumn, sortOrder, statusFilter, "deleteJob"))
            /\ jobs' = [jobs EXCEPT !.items = SelectSeq(@, LAMBDA j : j.id # net[i].id)]
            /\ Obs(Response(net[i], o, << >>), "none",
                   <<ListReq(sortColumn, sortOrder, statusFilter, "deleteJob")>>, FALSE)
    /\ UNCHANGED <<reopened, authPending, started, rendered, sortColumn, sortOrder, statusFilter,
                   editingJobId, modalOpen, form, saveDisabled>>

\* deleteJob whose catch only logs
RespondDelete_swallows(i, o) ==
    /\ IsDelete(net[i])
    /\ redirected' = (redirected \/ ApiRedirects(o))
    /\ IF ApiResult(o) = "throws"
       THEN /\ loading' = FALSE
            /\ net' = Remove(net, i)
            /\ Obs(Response(net[i], o, << >>), "none", << >>, FALSE)
       ELSE /\ loading' = TRUE
            /\ net' = Append(Remove(net, i),
                             ListReq(sortColumn, sortOrder, statusFilter, "deleteJob"))
            /\ Obs(Response(net[i], o, << >>), "none",
                   <<ListReq(sortColumn, sortOrder, statusFilter, "deleteJob")>>, FALSE)
    /\ UNCHANGED <<reopened, authPending, started, jobs, rendered, sortColumn, sortOrder, statusFilter,
                   editingJobId, modalOpen, form, saveDisabled>>

\* deleteJob after deleteJobById: an exception alerts; otherwise loadJobs()
RespondDelete(i, o) ==
    /\ IsDelete(net[i])
    /\ redirected' = (redirected \/ ApiRedirects(o))
    /\ IF ApiResult(o) = "throws"
       THEN /\ loading' = FALSE
            /\ net' = Remove(net, i)
            /\ Obs(Response(net[i], o, << >>),
                   "Failed to delete application. Please try again.", << >>, FALSE)
       ELSE /\ loading' = TRUE
            /\ net' = Append(Remove(net, i),
                             ListReq(sortColumn, sortOrder, statusFilter, "deleteJob"))
            /\ Obs(Response(net[i], o, << >>), "none",
                   <<ListReq(sortColumn, sortOrder, statusFilter, "deleteJob")>>, FALSE)
    /\ UNCHANGED <<reopened, authPending, started, jobs, rendered, sortColumn, sortOrder, statusFilter,
                   editingJobId, modalOpen, form, saveDisabled>>

(* --------------------------- specifications ----------------------------- *)
\* the answers to the list and stats requests
ListAnswers ==
    \/ \E i \in 1..Len(net), o \in Outcomes, b \in StatsBodies : RespondStats(i, o, b)
    \/ \E i \in 1..Len(net), o \in Outcomes, p \in Payloads : RespondList(i, o, p)

\* the user opens the modal, fills the form and submits it
SaveEvents ==
    \/ KeyCtrlN
    \/ \E k \in 1..Len(rendered) : EditClick(rendered[k].id)
    \/ \E f \in TypedForms : Type(f)
    \/ Submit
    \/ \E i \in 1..Len(net), o \in Outcomes : RespondSave(i, o)

\* the user closes the modal
CloseEvents ==
    \/ KeyEscape
    \/ ClickOutside
    \/ CancelClick

\* the user at the table's headers and filter
HeaderEvents ==
    \/ \E c \in Columns : SortClick(c)
    \/ \E s \in StatusVals : FilterChange(s)
    \/ ClearClick

\* the user at the Delete buttons of the rows
RowEvents ==
    \/ \E k \in 1..Len(rendered), c \in BOOLEAN : DeleteClick(rendered[k].id, c)
    \/ \E i \in 1..Len(net), o \in Outcomes : RespondDelete(i, o)

\* the stats timer, the export shortcut and the authentication check
BackgroundEvents ==
    \/ TimerTick
    \/ KeyCtrlE
    \/ \E i \in 1..Len(net), o \in Outcomes : RespondExport(i, o)
    \/ \E o \in Outcomes : RespondAuth(o)

\* the whole page
Next ==
    \/ DOMContentLoaded
    \/ ListAnswers
    \/ SaveEvents
    \/ CloseEvents
    \/ HeaderEvents
    \/ RowEvents
    \/ BackgroundEvents

Spec == Init /\ [][Next]_vars

\* The state space of Spec is the product of those of the page's parts.  The
\* claims are checked on the page with the user at one part of it; every
\* behaviour of the specifications below is a behaviour of Spec.

\* the user at the modal form
NextForm == DOMContentLoaded \/ ListAnswers \/ SaveEvents \/ CloseEvents

SpecForm == Init /\ [][NextForm]_vars

\* the user at the headers and the filter
NextTable == DOMContentLoaded \/ ListAnswers \/ HeaderEvents

SpecTable == Init /\ [][NextTable]_vars

\* the user at the rows, with the timer, the export and the authentication check
NextRows == DOMContentLoaded \/ ListAnswers \/ RowEvents \/ BackgroundEvents

SpecRows == Init /\ [][NextRows]_vars

\* the user creating, updating and deleting records
NextMutations == DOMContentLoaded \/ ListAnswers \/ SaveEvents \/ RowEvents

SpecMutations == Init /\ [][NextMutations]_vars

\* the export shortcut and the answer to its request
ExportEvents ==
    \/ KeyCtrlE
    \/ \E i \in 1..Len(net), o \in Outcomes : RespondExport(i, o)

\* the user creating, updating, deleting and exporting records
NextRequests == DOMContentLoaded \/ ListAnswers \/ SaveEvents \/ RowEvents \/ ExportEvents

SpecRequests == Init /\ [][NextRequests]_vars

(* ------------------------------- claims --------------------------------- *)
InStore(jobId) == jobs.tag = "array" /\ Found(jobs.items, jobId)

SendsSave(s) == \E k \in 1..Len(s) : IsSave(s[k])

\* C1: a submit of a form whose trimmed company and position are non-empty
\* issues exactly one save request, PUT /api/jobs/{editingJobId} when the
\* modal is open for edit and POST /api/jobs when it is open for create; no
\* other step of the run issues a save; and when the handler finishes, after
\* the list reload that follows the save, the modal is closed and
\* editingJobId is null.
C1_SubmitIssuesOneMatchingSave ==
    [][/\ (/\ ev'.op = "handleFormSubmit"
           /\ Trim(form.company) # Empty
           /\ Trim(form.position) # Empty)
          => /\ Len(sent') = 1
             /\ IF editingJobId # Null
                THEN /\ sent'[1].method = "PUT"
                     /\ sent'[1].url = "/api/jobs/{id}"
                     /\ sent'[1].id = editingJobId
                ELSE /\ sent'[1].method = "POST"
                     /\ sent'[1].url = "/api/jobs"
             /\ net' = Append(net, sent'[1])
       /\ SendsSave(sent') => ev'.op = "handleFormSubmit"
       /\ (/\ ev'.op = "response"
           /\ IsSave(ev'.req)
           /\ ev'.outcome = "ok")
          => /\ ~SendsSave(sent')
             /\ Len(sent') = 1
             /\ IsList(sent'[1])
             /\ sent'[1].caller = "handleFormSubmit"
       /\ (/\ ev'.op = "response"
           /\ IsList(ev'.req)
           /\ ev'.req.caller = "handleFormSubmit")
          => /\ ~modalOpen'
             /\ editingJobId' = Null
             /\ ~SendsSave(sent')
      ]_vars

\* an edit was submitted and its one PUT issued
C1_Witness ==
    /\ ev.op = "handleFormSubmit"
    /\ ev.outcome = "accepted"
    /\ modalOpen
    /\ editingJobId \in Ids
    /\ sent = <<SaveReq(editingJobId)>>
    /\ sent[1].method = "PUT"

\* C2: a submit of a form whose company or position is empty after trimming
\* issues no request, leaves the modal open and leaves editingJobId and the
\* record store as they were.
C2_RejectedSubmitChangesNothing ==
    [][(/\ ev'.op = "handleFormSubmit"
        /\ (Trim(form.company) = Empty \/ Trim(form.position) = Empty))
       => /\ sent' = << >>
          /\ net' = net
          /\ modalOpen /\ modalOpen'
          /\ editingJobId' = editingJobId
          /\ jobs' = jobs
      ]_vars

\* a form whose company is blanks only was submitted and rejected
C2_Witness ==
    /\ ev.op = "handleFormSubmit"
    /\ ev.outcome = "rejected"
    /\ form.company = <<" ">>
    /\ form.position # Empty
    /\ modalOpen
    /\ sent = << >>

\* C3: deleteJob(id) issues no request when the confirmation is declined and
\* exactly one DELETE /api/jobs/{id} when it is accepted; the answer to a
\* successful DELETE issues exactly one list reload, and the list reload of a
\* delete is issued by no other step than the answer to its DELETE.
C3_DeleteConfirmedThenReload ==
    [][/\ (ev'.op = "deleteJob" /\ ev'.outcome = "declined")
          => sent' = << >> /\ net' = net
       /\ (ev'.op = "deleteJob" /\ ev'.outcome = "accepted")
          => /\ Len(sent') = 1
             /\ sent'[1].method = "DELETE"
             /\ sent'[1].url = "/api/jobs/{id}"
             /\ sent'[1].id = ev'.id
             /\ net' = Append(net, sent'[1])
       /\ (ev'.op = "response" /\ IsDelete(ev'.req) /\ ev'.outcome = "ok")
          => /\ Len(sent') = 1
             /\ IsList(sent'[1])
             /\ sent'[1].caller = "deleteJob"
       /\ (\E k \in 1..Len(sent') : IsList(sent'[k]) /\ sent'[k].caller = "deleteJob")
          => /\ ev'.op = "response"
             /\ IsDelete(ev'.req)
             /\ ev'.outcome # "error"
      ]_vars

\* a DELETE was answered with success and its one list reload issued
C3_Witness ==
    /\ ev.op = "response"
    /\ IsDelete(ev.req)
    /\ ev.outcome = "ok"
    /\ sent = <<ListReq(sortColumn, sortOrder, statusFilter, "deleteJob")>>

\* C4: a 401 answer to a list, create, update or delete request made through
\* apiRequest redirects the page and shows no alert, and the list reload its
\* flow goes on to shows none either.
C4_UnauthorizedRedirectsSilently ==
    [][/\ (/\ ev'.op = "response"
           /\ ev'.outcome = "unauth"
           /\ (IsList(ev'.req) \/ IsSave(ev'.req) \/ IsDelete(ev'.req)))
          => redirected' /\ alert' = "none"
       /\ (ev'.op = "response" /\ IsList(ev'.req)) => alert' = "none"
      ]_vars

\* a save was answered 401
C4_Witness ==
    /\ ev.op = "response"
    /\ IsSave(ev.req)
    /\ ev.outcome = "unauth"
    /\ redirected
    /\ alert = "none"

\* C5: while a request made through apiRequest is in flight, the loading
\* indicator is visible.
C5_IndicatorWhileInFlight ==
    (\E i \in 1..Len(net) : net[i].via = "apiRequest") => loading

\* C6: openModal(id) with an id that no record of the store has does not
\* enter edit mode for that id.
C6_EditOnlyIfFound ==
    [][(/\ ev'.op = "openModal"
        /\ ev'.id # Null
        /\ ~InStore(ev'.id))
       => ~(modalOpen' /\ editingJobId' = ev'.id)
      ]_vars

\* C7: whenever the modal is closed, editingJobId is null.
C7_ClosedModalHasNoEditTarget ==
    ~modalOpen => editingJobId = Null

\* C8: sortTable(c) on the active column keeps the column and flips the order
\* between asc and desc, so that a second sortTable(c) gives the order back;
\* on another column it makes c the active column with order asc.
C8_SortToggle ==
    [][ev'.op = "sortTable"
       => LET c == ev'.str
              again == SortState(sortColumn', sortOrder', c)
          IN  /\ c \in Columns
              /\ IF c = sortColumn
                 THEN /\ sortColumn' = sortColumn
                      /\ sortOrder \in {"asc", "desc"}
                      /\ sortOrder' \in {"asc", "desc"}
                      /\ sortOrder' # sortOrder
                 ELSE /\ sortColumn' = c
                      /\ sortOrder' = "asc"
              /\ again.column = c
              /\ again.order \in {"asc", "desc"}
              /\ again.order # sortOrder'
              /\ c = sortColumn => again.order = sortOrder
      ]_vars

\* the active column was clicked and the order went from asc to desc
C8_Witness ==
    /\ ev.op = "sortTable"
    /\ ev.str = sortColumn
    /\ sortColumn \in Columns
    /\ sortOrder = "desc"

\* C9: a list request that fails (not with 401) leaves the record store and
\* the table as they were, shows no alert and issues no stats request.
C9_FailedLoadKeepsList ==
    [][(ev'.op = "response" /\ IsList(ev'.req) /\ ev'.outcome = "error")
       => /\ jobs' = jobs
          /\ rendered' = rendered
          /\ alert' = "none"
          /\ sent' = << >>
      ]_vars

\* a list request failed while the store held a record
C9_Witness ==
    /\ ev.op = "response"
    /\ IsList(ev.req)
    /\ ev.outcome = "error"
    /\ jobs.tag = "array"
    /\ jobs.items # << >>
    /\ rendered = jobs.items

\* C10: a reload triggered while other requests are in flight is issued and
\* cancels none of them, and every successful list answer replaces the record
\* store by its list, whether or not a list request issued later has been
\* answered before.
C10_LastResponseWins ==
    [][/\ ev'.op \in {"sortTable", "filter", "clearFilters"}
          => /\ Len(sent') = 1
             /\ IsList(sent'[1])
             /\ net' = Append(net, sent'[1])
       /\ (ev'.op = "response" /\ IsList(ev'.req) /\ ev'.outcome = "ok")
          => /\ jobs' = Arr(ev'.body)
             /\ rendered' = ev'.body
             /\ \A k \in 1..Len(net) :
                    (IsList(net[k]) /\ net[k] # ev'.req)
                    => \E m \in 1..Len(net') : net'[m].q = net[k].q /\ IsList(net'[m])
      ]_vars

\* the answer to a list request overtaken by a later one has been stored,
\* and it is the list for another sort or filter choice than the current one
C10_Witness ==
    /\ ev.op = "response"
    /\ IsList(ev.req)
    /\ ev.outcome = "ok"
    /\ ev.req.late
    /\ ev.req.q # Query(sortColumn, sortOrder, statusFilter)
    /\ jobs = Arr(ev.body)
    /\ ev.body # << >>

IsExport(r) == r.caller = "exportToCSV"

\* C11: the failure (not a 401) of a create, update or delete request, and
\* of an export request, shows the alert of the flow that issued it; the
\* failure of a list or stats request shows no alert; and the step that
\* handles a failed request issues no request.
C11_FailuresSurfaceExceptLoads ==
    [][(ev'.op = "response" /\ ev'.outcome = "error")
       => /\ IsSave(ev'.req)
             => alert' = "Failed to save application. Please try again."
          /\ IsDelete(ev'.req)
             => alert' = "Failed to delete application. Please try again."
          /\ IsExport(ev'.req)
             => alert' = "Failed to export data. Please try again."
          /\ (IsList(ev'.req) \/ IsStats(ev'.req)) => alert' = "none"
          /\ sent' = << >>
          /\ Len(net') = Len(net) - 1
      ]_vars

\* a DELETE failed and the delete flow showed its alert
C11_Witness ==
    /\ ev.op = "response"
    /\ IsDelete(ev.req)
    /\ ev.outcome = "error"
    /\ alert = "Failed to delete application. Please try again."
    /\ sent = << >>

\* C12: exportToCSV, from the shortcut to the answer, leaves the record
\* store, sortColumn, sortOrder, editingJobId and the modal as they were and
\* issues no request but its own; a failed export (a rejected fetch or a
\* non-ok answer) shows the retry message and starts no download.
C12_ExportTouchesNothing ==
    [][(ev'.op = "exportToCSV" \/ (ev'.op = "response" /\ IsExport(ev'.req)))
       => /\ jobs' = jobs
          /\ sortColumn' = sortColumn
          /\ sortOrder' = sortOrder
          /\ editingJobId' = editingJobId
          /\ modalOpen' = modalOpen
          /\ \A k \in 1..Len(sent') : ~IsList(sent'[k]) /\ ~IsStats(sent'[k])
          /\ ev'.op = "exportToCSV" => sent' = <<ExportReq>>
          /\ ev'.op = "response" => sent' = << >>
          /\ (ev'.op = "response" /\ ev'.outcome # "ok")
             => /\ alert' = "Failed to export data. Please try again."
                /\ ~download'
      ]_vars

\* an export was answered with a non-ok status while the store held a record
C12_Witness ==
    /\ ev.op = "response"
    /\ IsExport(ev.req)
    /\ ev.outcome = "unauth"
    /\ alert = "Failed to export data. Please try again."
    /\ ~download
    /\ jobs.tag = "array"
    /\ jobs.items # << >>

\* C13: deleteJob(id) changes neither the record store nor the table, from
\* the click (declined or accepted) to the answer to its DELETE (success,
\* failure or 401); the record store changes only when a list request is
\* answered.
C13_DeleteLeavesStoreToReload ==
    [][/\ (ev'.op = "deleteJob" \/ (ev'.op = "response" /\ IsDelete(ev'.req)))
          => jobs' = jobs /\ rendered' = rendered
       /\ jobs' # jobs => ev'.op = "response" /\ IsList(ev'.req)
      ]_vars

\* a DELETE succeeded and the store still holds the record it was for
C13_Witness ==
    /\ ev.op = "response"
    /\ IsDelete(ev.req)
    /\ ev.outcome = "ok"
    /\ InStore(ev.req.id)
    /\ Len(sent) = 1
    /\ sent[1].caller = "deleteJob"

\* C14: the failure (not a 401) of a submit's save leaves the modal,
\* editingJobId, the form and the record store as they were, issues no
\* request and enables the button; so when the modal is still on what was
\* submitted, it stays open on it, and a submit that follows issues the
\* request that failed once more.
C14_FailedSaveKeepsModal ==
    [][/\ (ev'.op = "response" /\ IsSave(ev'.req) /\ ev'.outcome = "error")
          => /\ modalOpen' = modalOpen
             /\ editingJobId' = editingJobId
             /\ form' = form
             /\ jobs' = jobs
             /\ sent' = << >>
             /\ ~saveDisabled'
             /\ (modalOpen /\ SaveReq(editingJobId) = ev'.req)
                => (modalOpen' /\ SaveReq(editingJobId') = ev'.req)
       /\ (/\ ev.op = "response" /\ IsSave(ev.req) /\ ev.outcome = "error"
           /\ SaveReq(editingJobId) = ev.req
           /\ ev'.op = "handleFormSubmit" /\ ev'.outcome = "accepted")
          => sent' = <<ev.req>>
      ]_vars

\* the PUT of an edit failed and the modal is still open on that edit, its
\* form filled and its button enabled
C14_Witness ==
    /\ ev.op = "response"
    /\ IsSave(ev.req)
    /\ ev.outcome = "error"
    /\ ev.req.method = "PUT"
    /\ modalOpen
    /\ editingJobId = ev.req.id
    /\ FormValid(form)
    /\ ~saveDisabled

SubmitInFlight == \E k \in 1..Len(net) : net[k].caller = "handleFormSubmit"

\* C15: the save button is disabled exactly while the save request of a
\* submit or the list reload that follows it is in flight; after a rejected
\* submit, after a failed save and after the answer (success, failure or 401)
\* to the submit's list reload the button is enabled.
C15_ButtonDisabledWhileSubmitRuns ==
    /\ saveDisabled <=> SubmitInFlight
    /\ (ev.op = "handleFormSubmit" /\ ev.outcome = "rejected") => ~saveDisabled
    /\ (ev.op = "handleFormSubmit" /\ ev.outcome = "accepted") => saveDisabled
    /\ (ev.op = "response" /\ IsSave(ev.req))
       => (saveDisabled <=> ev.outcome # "error")
    /\ (ev.op = "response" /\ IsList(ev.req) /\ ev.req.caller = "handleFormSubmit")
       => ~saveDisabled

\* the save of a submit was answered 401, its list reload was answered 401
\* too, and the button is enabled again
C15_Witness ==
    /\ ev.op = "response"
    /\ IsList(ev.req)
    /\ ev.req.caller = "handleFormSubmit"
    /\ ev.outcome = "unauth"
    /\ ~saveDisabled
    /\ ~SubmitInFlight

\* C16: the answer to a successful stats request writes the body's total
\* into the total field and its byStatus.interview into the interview field,
\* and "0" for each of the two that the body lacks (a body without byStatus
\* included), whatever the record store holds; the body {total: 2,
\* byStatus: {interview: 1}} shows "2" and "1"; no other step writes the
\* fields.
C16_StatsDisplayFromResponse ==
    /\ (ev.op = "response" /\ IsStats(ev.req) /\ ev.outcome = "ok")
       => /\ shown.written
          /\ shown.total = IF ev.stats.total = Null THEN "0"
                            ELSE ToString(ev.stats.total)
          /\ shown.interview =
                IF ev.stats.byStatus.present /\ ev.stats.byStatus.interview # Null
                THEN ToString(ev.stats.byStatus.interview)
                ELSE "0"
          /\ ev.stats = [total |-> 2, byStatus |-> Mapping(1)]
             => shown.total = "2" /\ shown.interview = "1"
    /\ shown.written => (ev.op = "response" /\ IsStats(ev.req) /\ ev.outcome = "ok")

\* a stats answer without total and byStatus was shown as "0" and "0" while
\* the record store held a record
C16_Witness ==
    /\ ev.op = "response"
    /\ IsStats(ev.req)
    /\ ev.outcome = "ok"
    /\ ev.stats = NoStats
    /\ shown = [written |-> TRUE, total |-> "0", interview |-> "0"]
    /\ jobs.tag = "array"
    /\ jobs.items # << >>

\* C17: every list request carries sort_by and sort_order equal to
\* sortColumn and sortOrder as they are when it is issued, and a status
\* parameter exactly when the status filter is then non-empty, with its
\* value; clearFilters issues one list request, without status parameter,
\* and sortTable issues one list request, and neither changes the record
\* store or the table itself.
C17_ListRequestCarriesSortAndFilter ==
    [][/\ \A k \in 1..Len(sent') :
              IsList(sent'[k])
              => /\ sent'[k].q.sort_by = sortColumn'
                 /\ sent'[k].q.sort_order = sortOrder'
                 /\ (sent'[k].q.status # << >>) <=> (statusFilter' # "")
                 /\ sent'[k].q.status # << >> => sent'[k].q.status = <<statusFilter'>>
       /\ ev'.op \in {"sortTable", "clearFilters"}
          => /\ Len(sent') = 1
             /\ IsList(sent'[1])
             /\ jobs' = jobs
             /\ rendered' = rendered
       /\ ev'.op = "clearFilters" => sent'[1].q.status = << >>
      ]_vars

\* clearFilters issued a list request without status parameter while a list
\* request with status=applied was still in flight
C17_Witness ==
    /\ ev.op = "clearFilters"
    /\ statusFilter = ""
    /\ Len(sent) = 1
    /\ sent[1].q.status = << >>
    /\ \E k \in 1..Len(net) : IsList(net[k]) /\ net[k].q.status = <<"applied">>

StatsInFlight(s) == Cardinality({ k \in 1..Len(s) : IsStats(s[k]) })

\* C18: the answer to a successful list request makes the record store the
\* list of the answer, so that the store holds no record the answer lacks,
\* renders the table from it, and issues one stats request and nothing else.
C18_ListAnswerReplacesStore ==
    [][(ev'.op = "response" /\ IsList(ev'.req) /\ ev'.outcome = "ok")
       => /\ jobs'.tag = "array"
          /\ jobs'.items = ev'.body
          /\ \A k \in 1..Len(jobs'.items) :
                 \E m \in 1..Len(ev'.body) : ev'.body[m] = jobs'.items[k]
          /\ rendered' = jobs'.items
          /\ sent' = <<StatsReq>>
          /\ StatsInFlight(net') = StatsInFlight(net) + 1
          /\ net'[Len(net')] = StatsReq
      ]_vars

\* the list reload of a delete was answered with the empty list: the store
\* and the table are empty and one stats request was issued
C18_Witness ==
    /\ ev.op = "response"
    /\ IsList(ev.req)
    /\ ev.req.caller = "deleteJob"
    /\ ev.outcome = "ok"
    /\ ev.body = << >>
    /\ jobs = Arr(<< >>)
    /\ rendered = << >>
    /\ sent = <<StatsReq>>

\* C19: when the modal was closed and opened again while a submit was in
\* flight, the completion of that submit leaves the newly opened modal open
\* and its editingJobId as it is.
C19_CompletionSparesNewSession ==
    [][(/\ ev'.op = "response"
        /\ IsList(ev'.req)
        /\ ev'.req.caller = "handleFormSubmit"
        /\ modalOpen
        /\ reopened)
       => /\ modalOpen'
          /\ editingJobId' = editingJobId
      ]_vars

\* C20: the record store is always a list, the initial empty one or the body
\* of a successful list answer, never undefined.
C20_JobsIsAlwaysAList ==
    /\ jobs.tag = "array"
    /\ jobs.items \in Payloads
====
